---------------------------- MODULE Spec2Model ----------------------------
(***************************************************************************)
(* A model of src/engine2.py: one request through full_pipeline, i.e.      *)
(* combine_results (search_google with its per-block scraping loop, the    *)
(* search_duckduckgo fallback, search_wikipedia) followed by               *)
(* generate_answer and the final json.dumps.                               *)
(*                                                                         *)
(* Text is a sequence of fragments (a fragment is an indivisible piece of  *)
(* text, a blank fragment is " "), so that str.strip and str.startswith    *)
(* are computed on the text and not assumed.  A JSON value is a record     *)
(* [t, s, keys, items] of one shape for every kind of value.  The external *)
(* services (the three HTTP endpoints, the model server) are inputs: each  *)
(* call draws its outcome from a finite set of replies.                    *)
(***************************************************************************)
EXTENDS Integers, Sequences, FiniteSets, TLC

\* The longest results page, in candidate result blocks.
MaxBlocks == 2

-----------------------------------------------------------------------------
(* Text *)

IsBlank(f) == f = " "

RECURSIVE lstrip(_)
lstrip(s) == IF s # <<>> /\ IsBlank(Head(s)) THEN lstrip(Tail(s)) ELSE s

RECURSIVE rstrip(_)
rstrip(s) ==
    IF s # <<>> /\ IsBlank(s[Len(s)]) THEN rstrip(SubSeq(s, 1, Len(s) - 1)) ELSE s

\* str.strip()
strip(s) == rstrip(lstrip(s))

\* str.startswith(prefix)
startswith(s, prefix) ==
    Len(s) >= Len(prefix) /\ SubSeq(s, 1, Len(prefix)) = prefix

-----------------------------------------------------------------------------
(* JSON values, as json.loads / response.json() produce them *)

JNull == [t |-> "null", s |-> <<>>, keys |-> <<>>, items |-> <<>>]
JStr(x) == [t |-> "str", s |-> x, keys |-> <<>>, items |-> <<>>]
JNum(x) == [t |-> "num", s |-> x, keys |-> <<>>, items |-> <<>>]
JList(xs) == [t |-> "list", s |-> <<>>, keys |-> <<>>, items |-> xs]
JDict(ks, vs) == [t |-> "dict", s |-> <<>>, keys |-> ks, items |-> vs]

EmptyDict == JDict(<<>>, <<>>)

\* key in d, for a dict d
HasKey(d, k) == \E i \in 1..Len(d.keys) : d.keys[i] = k

\* d[key], for a dict d that has the key
Get(d, k) == d.items[CHOOSE i \in 1..Len(d.keys) : d.keys[i] = k]

\* bool(v) of a list or a dict: non-empty
Truthy(v) ==
    CASE v.t = "dict" -> v.keys # <<>>
      [] v.t = "list" -> v.items # <<>>
      [] v.t = "str" -> v.s # <<>>
      [] OTHER -> FALSE


\* A Python evaluation that may raise: the value, or the exception's text.
Ok(v) == [raises |-> FALSE, value |-> v, err |-> <<>>]
Raise(e) == [raises |-> TRUE, value |-> JNull, err |-> e]

\* key in v: membership for a dict or a list, substring for a str, TypeError
\* for a number or None.
Contains(v, k) ==
    CASE v.t = "dict" -> Ok(HasKey(v, k))
      [] v.t = "list" -> Ok(\E i \in 1..Len(v.items) : v.items[i] = JStr(<<k>>))
      [] v.t = "str" -> Ok(\E i \in 1..Len(v.s) : v.s[i] = k)
      [] OTHER -> Raise(<<"argument of type is not iterable">>)

\* v[key] for a str key: KeyError on a dict without it, TypeError otherwise.
Subscript(v, k) ==
    IF v.t = "dict"
    THEN IF HasKey(v, k) THEN Ok(Get(v, k)) ELSE Raise(<<"'", k, "'">>)
    ELSE Raise(<<"indices must be integers">>)

\* v.get(key, default): AttributeError when v is not a dict.
DictGet(v, k, default) ==
    IF v.t = "dict"
    THEN Ok(IF HasKey(v, k) THEN Get(v, k) ELSE default)
    ELSE Raise(<<"object has no attribute 'get'">>)

-----------------------------------------------------------------------------
(* The replies of the external services *)

\* A reply to requests.get followed by response.json(): the transport fails
\* (ok = FALSE), the body is not JSON (decodes = FALSE), or it decodes to json.
HttpFail(e) == [ok |-> FALSE, decodes |-> FALSE, json |-> JNull, err |-> e]
HttpNotJson(e) == [ok |-> TRUE, decodes |-> FALSE, json |-> JNull, err |-> e]
HttpJson(v) == [ok |-> TRUE, decodes |-> TRUE, json |-> v, err |-> <<>>]

TimeoutErr == <<"timed out">>
DecodeErr == <<"Expecting value">>

Queries == {<<"how to drive">>, <<>>}

\* Candidate result blocks of a results page: the heading element, the first
\* anchor and its href, the snippet element; each may be missing.
Block(hasH3, h3, hasA, hasHref, href, hasSnip, snip) ==
    [has_h3 |-> hasH3, h3 |-> h3, has_a |-> hasA, has_href |-> hasHref,
     href |-> href, has_snip |-> hasSnip, snip |-> snip]

BOk1 == Block(TRUE, <<" ", "Learn", " ">>, TRUE, TRUE, <<"https://a.example">>,
              TRUE, <<"tip", " ">>)
BOk2 == Block(TRUE, <<"Drive">>, TRUE, TRUE, <<"https://b.example", "/search?">>,
              FALSE, <<>>)
BNoTitle == Block(FALSE, <<>>, TRUE, TRUE, <<"https://c.example">>, TRUE, <<"tip">>)
BNoAnchor == Block(TRUE, <<"Learn">>, FALSE, FALSE, <<>>, FALSE, <<>>)
BNoHref == Block(TRUE, <<"Learn">>, TRUE, FALSE, <<>>, FALSE, <<>>)
BSearch == Block(TRUE, <<"More">>, TRUE, TRUE, <<"/search?", "q=drive">>, FALSE, <<>>)
BUrl == Block(TRUE, <<"More">>, TRUE, TRUE, <<"/url?", "q=drive">>, TRUE, <<"tip">>)

Blocks == {BOk1, BOk2, BNoTitle, BNoAnchor, BNoHref, BSearch, BUrl}

BlockSeqs == UNION {[1..n -> Blocks] : n \in 0..MaxBlocks}

\* What the body text of a results page contains.
BodyTexts == {{}, {"CAPTCHA"}, {"unusual traffic"}, {"automated requests"},
              {"captcha"}}

\* A reply of the search engine: the transport fails, or a page arrives.
GoogleReplies ==
    {[ok |-> FALSE, text |-> {}, blocks |-> <<>>]}
    \cup {[ok |-> TRUE, text |-> t, blocks |-> b] : t \in BodyTexts, b \in BlockSeqs}

NoReply == [ok |-> FALSE, text |-> {}, blocks |-> <<>>]

\* The instant-answer replies of the secondary search API.
DdgAnswer ==
    JDict(<<"Heading", "AbstractURL", "AbstractText">>,
          <<JStr(<<"Driving">>), JStr(<<"https://d.example">>), JStr(<<"Driving is">>)>>)
DdgBlank ==
    JDict(<<"Heading", "AbstractURL", "AbstractText">>,
          <<JStr(<<>>), JStr(<<>>), JStr(<<>>)>>)
DdgHeadingOnly == JDict(<<"Heading">>, <<JStr(<<"Driving">>)>>)

DdgReplies ==
    {HttpFail(TimeoutErr), HttpNotJson(DecodeErr), HttpJson(DdgAnswer),
     HttpJson(DdgBlank), HttpJson(EmptyDict), HttpJson(DdgHeadingOnly),
     HttpJson(JList(<<>>))}

\* The replies of the encyclopedia search API.
WikiHit == JDict(<<"title", "pageid">>, <<JStr(<<"Driving">>), JNum(<<"8">>)>>)
WikiFull ==
    JDict(<<"query">>,
          <<JDict(<<"searchinfo", "search">>,
                  <<JDict(<<"suggestion">>, <<JStr(<<"driving">>)>>), JList(<<WikiHit>>)>>)>>)
WikiNoSuggestion ==
    JDict(<<"query">>,
          <<JDict(<<"searchinfo", "search">>, <<EmptyDict, JList(<<>>)>>)>>)
WikiNoSearchinfo ==
    JDict(<<"batchcomplete", "query">>,
          <<JStr(<<>>), JDict(<<"search">>, <<JList(<<WikiHit>>)>>)>>)
WikiNoSearch == JDict(<<"query">>, <<EmptyDict>>)
WikiQueryNotDict == JDict(<<"query">>, <<JStr(<<"search">>)>>)
WikiBadSearchinfo ==
    JDict(<<"query">>,
          <<JDict(<<"searchinfo", "search">>, <<JList(<<>>), JList(<<WikiHit>>)>>)>>)
WikiApiError ==
    JDict(<<"error">>, <<JDict(<<"code">>, <<JStr(<<"missingparam">>)>>)>>)
WikiQueryAndError ==
    JDict(<<"error", "query">>,
          <<JStr(<<"warn">>), JDict(<<"search">>, <<JList(<<>>)>>)>>)

WikiReplies ==
    {HttpFail(TimeoutErr), HttpNotJson(DecodeErr), HttpJson(WikiFull),
     HttpJson(WikiNoSuggestion), HttpJson(WikiNoSearchinfo), HttpJson(WikiNoSearch),
     HttpJson(WikiQueryNotDict), HttpJson(WikiBadSearchinfo), HttpJson(WikiApiError),
     HttpJson(WikiQueryAndError), HttpJson(EmptyDict), HttpJson(JNum(<<"5">>)),
     HttpJson(JList(<<JStr(<<"query">>)>>))}

\* The replies of the model server to ollama.chat.
LlmText == <<"Key points">>
LlmOk == JDict(<<"message">>, <<JDict(<<"content">>, <<JStr(LlmText)>>)>>)
LlmNoContent == JDict(<<"message">>, <<EmptyDict>>)
LlmReplies ==
    {HttpFail(<<"connection refused">>), HttpJson(LlmOk), HttpJson(LlmNoContent),
     HttpJson(EmptyDict)}

-----------------------------------------------------------------------------
(* json.dumps: the text of a JSON value, as its sequence of tokens *)

Tok(k, x) == [k |-> k, s |-> x]
Punct(k) == Tok(k, <<>>)

RECURSIVE Dumps(_)
RECURSIVE DumpItems(_, _)
RECURSIVE DumpMembers(_, _, _)

\* json.dumps(v): the indentation of indent=2 is white space between tokens.
Dumps(v) ==
    CASE v.t = "null" -> <<Punct("null")>>
      [] v.t = "str" -> <<Tok("string", v.s)>>
      [] v.t = "num" -> <<Tok("number", v.s)>>
      [] v.t = "list" -> <<Punct("[")>> \o DumpItems(v.items, 1) \o <<Punct("]")>>
      [] v.t = "dict" -> <<Punct("{")>> \o DumpMembers(v.keys, v.items, 1) \o <<Punct("}")>>

DumpItems(items, n) ==
    IF n > Len(items) THEN <<>>
    ELSE (IF n > 1 THEN <<Punct(",")>> ELSE <<>>)
         \o Dumps(items[n]) \o DumpItems(items, n + 1)

DumpMembers(ks, items, n) ==
    IF n > Len(ks) THEN <<>>
    ELSE (IF n > 1 THEN <<Punct(",")>> ELSE <<>>)
         \o <<Tok("string", <<ks[n]>>), Punct(":")>>
         \o Dumps(items[n]) \o DumpMembers(ks, items, n + 1)

-----------------------------------------------------------------------------
(* search_wikipedia *)

\* The decoded response, or {"error": str(e)} on any failure.
search_wikipedia(reply) ==
    IF reply.ok /\ reply.decodes
    THEN reply.json
    ELSE JDict(<<"error">>, <<JStr(reply.err)>>)

-----------------------------------------------------------------------------
(* search_duckduckgo *)

\* data.get(key, ""), on a decoded dict
FieldOrEmpty(data, k) == DictGet(data, k, JStr(<<>>)).value

\* One record built from whatever the reply holds, or [] when the request,
\* the decoding or data.get raises.
search_duckduckgo(reply) ==
    IF ~(reply.ok /\ reply.decodes) \/ reply.json.t # "dict"
    THEN <<>>
    ELSE <<[title |-> FieldOrEmpty(reply.json, "Heading"),
            url |-> FieldOrEmpty(reply.json, "AbstractURL"),
            snippet |-> FieldOrEmpty(reply.json, "AbstractText"),
            source |-> JStr(<<"duckduckgo">>)]>>

-----------------------------------------------------------------------------
(* search_google *)

BlockPhrases == {"CAPTCHA", "unusual traffic", "automated requests"}

\* any(phrase in response.text for phrase in [...])
Blocked(reply) == reply.text \cap BlockPhrases # {}

\* result.select_one('h3, ...').text and result.find('a')['href']: raises on a
\* missing heading, a missing anchor or an anchor without href.
ExtractionRaises(b) == ~b.has_h3 \/ ~b.has_a \/ ~b.has_href

\* Faulty variant: the redirect path '/url?' is not tested.
InternalUrl_searchOnly(url) == startswith(url, <<"/search?">>)

\* url.startswith('/search?') or url.startswith('/url?')
InternalUrl(url) == startswith(url, <<"/search?">>) \/ startswith(url, <<"/url?">>)

\* One pass of the loop over the candidate blocks: results after block b.
ScrapeBlock(res, b) ==
    IF ExtractionRaises(b) THEN res
    ELSE IF InternalUrl(b.href) THEN res
    ELSE Append(res, [title |-> JStr(strip(b.h3)),
                      url |-> JStr(b.href),
                      snippet |-> JStr(strip(IF b.has_snip THEN b.snip ELSE <<>>)),
                      source |-> JStr(<<"google">>)])

-----------------------------------------------------------------------------
(* combine_results *)

\* The composite as first built.
EmptyComposite(q) ==
    [query |-> q,
     sources |-> [google |-> <<>>, wikipedia |-> EmptyDict, fallback |-> <<>>]]

\* Faulty variant: "if google_results is None", which a list never is.
UseFallback_isNone(gres) == FALSE

\* if not google_results: the fallback is stored, else the primary results.
UseFallback(gres) == gres = <<>>

\* Faulty variant: the primary results are stored under both keys.
StoreGoogle_both(c, gres) ==
    [c EXCEPT !.sources.google = gres, !.sources.fallback = gres]

StoreGoogle(c, gres) == [c EXCEPT !.sources.google = gres]

StoreFallback(c, dres) == [c EXCEPT !.sources.fallback = dres]

\* The dict display {"results": ..., "suggestion": ...}: it raises before the
\* assignment when wiki_data["query"] or its "search" cannot be read.
WikiEntry(wiki) ==
    LET q == Subscript(wiki, "query")
        res == IF q.raises THEN q ELSE Subscript(q.value, "search")
        info == IF res.raises THEN res ELSE DictGet(q.value, "searchinfo", EmptyDict)
        sug == IF info.raises THEN info ELSE DictGet(info.value, "suggestion", JNull)
    IN  IF sug.raises THEN sug
        ELSE Ok(JDict(<<"results", "suggestion">>, <<res.value, sug.value>>))

\* Faulty variant: a response without "query" is stored as it came.
StoreWikipedia_raw(c, wiki) ==
    LET has == Contains(wiki, "query")
        entry == WikiEntry(wiki)
    IN  IF has.raises THEN c
        ELSE IF ~has.value THEN [c EXCEPT !.sources.wikipedia = wiki]
        ELSE IF entry.raises THEN c
        ELSE [c EXCEPT !.sources.wikipedia = entry.value]

\* Faulty variant: the except branch returns a fresh composite.
StoreWikipedia_reset(c, wiki) ==
    LET has == Contains(wiki, "query")
        entry == WikiEntry(wiki)
    IN  IF has.raises THEN EmptyComposite(c.query)
        ELSE IF ~has.value THEN c
        ELSE IF entry.raises THEN EmptyComposite(c.query)
        ELSE [c EXCEPT !.sources.wikipedia = entry.value]

\* if "query" in wiki_data: ... under the try/except of combine_results, which
\* returns the composite as it stands when anything raises.
StoreWikipedia(c, wiki) ==
    LET has == Contains(wiki, "query")
        entry == WikiEntry(wiki)
    IN  IF has.raises THEN c
        ELSE IF ~has.value THEN c
        ELSE IF entry.raises THEN c
        ELSE [c EXCEPT !.sources.wikipedia = entry.value]

\* Whether the except branch of combine_results was taken.
CombinationFailed(wiki) ==
    LET has == Contains(wiki, "query")
    IN  has.raises \/ (has.value /\ WikiEntry(wiki).raises)

-----------------------------------------------------------------------------
(* generate_answer *)

NoResultsMsg ==
    <<"No search results found. Try rephrasing your question or check your network connection.">>

\* Faulty variant: all(...) in place of any(...).
AnySource_all(c) ==
    /\ c.sources.google # <<>>
    /\ Truthy(c.sources.wikipedia)
    /\ c.sources.fallback # <<>>

\* Faulty variant: any(combined_results.values()), which also reads the query
\* and the sources mapping itself, a dict of three keys.
AnySource_whole(c) ==
    \/ c.query # <<>>
    \/ Truthy(JDict(<<"google", "wikipedia", "fallback">>,
                    <<JList(c.sources.google), c.sources.wikipedia,
                      JList(c.sources.fallback)>>))

\* any(combined_results["sources"].values())
AnySource(c) ==
    \/ c.sources.google # <<>>
    \/ Truthy(c.sources.wikipedia)
    \/ c.sources.fallback # <<>>

\* response["message"]["content"] of the reply of ollama.chat
LlmContent(reply) ==
    IF ~(reply.ok /\ reply.decodes) THEN Raise(reply.err)
    ELSE LET m == Subscript(reply.json, "message")
         IN  IF m.raises THEN m ELSE Subscript(m.value, "content")

\* The answer when the model is called with the reply it gave.
AnswerFrom(reply) ==
    LET r == LlmContent(reply)
    IN  IF r.raises THEN JStr(<<"Error generating answer: ">> \o r.err) ELSE r.value

\* Whether generate_answer calls the model.
CallsModel(c) == AnySource(c)

generate_answer(c, reply) ==
    IF ~CallsModel(c) THEN Ok(JStr(NoResultsMsg)) ELSE Ok(AnswerFrom(reply))

-----------------------------------------------------------------------------
(* full_pipeline *)

ResultJson(r) ==
    JDict(<<"title", "url", "snippet", "source">>, <<r.title, r.url, r.snippet, r.source>>)

RECURSIVE ResultsJson(_)
ResultsJson(rs) ==
    IF rs = <<>> THEN <<>> ELSE <<ResultJson(Head(rs))>> \o ResultsJson(Tail(rs))

\* The composite as the dict that json.dumps is given.
CompositeJson(c) ==
    JDict(<<"query", "sources">>,
          <<JStr(c.query),
            JDict(<<"google", "wikipedia", "fallback">>,
                  <<JList(ResultsJson(c.sources.google)),
                    c.sources.wikipedia,
                    JList(ResultsJson(c.sources.fallback))>>)>>)

\* str(v) of a dumped value: None for null, single-quoted strings.
ReprToken(tok) ==
    CASE tok.k = "null" -> Punct("None")
      [] tok.k = "string" -> Tok("'string'", tok.s)
      [] OTHER -> tok

\* Faulty variant: str(results) in place of json.dumps(results, indent=2).
full_pipeline_repr(c, gen) ==
    LET text == Dumps(CompositeJson(c))
    IN  [answer |-> gen.value,
         evidence |-> [n \in 1..Len(text) |-> ReprToken(text[n])]]

\* The pair full_pipeline returns: the answer with the dumped composite, or, when
\* a stage raised, the error text with the dumped error object.
full_pipeline(c, gen) ==
    IF gen.raises
    THEN [answer |-> JStr(<<"Pipeline error: ">> \o gen.err),
          evidence |-> Dumps(JDict(<<"error">>, <<JStr(gen.err)>>))]
    ELSE [answer |-> gen.value, evidence |-> Dumps(CompositeJson(c))]

-----------------------------------------------------------------------------
(* One request through full_pipeline *)

VARIABLES
    pc,              \* where the request is
    query,           \* the three inputs of full_pipeline
    use_google,
    use_wiki,
    combined,        \* the composite of combine_results
    calls,           \* the external calls made for this request, in order
    response,        \* search_google: the reply being scraped
    i,               \* search_google: the next candidate block
    results,         \* search_google: the records appended so far
    google_results,  \* what search_google returned
    ddg_data,        \* search_duckduckgo: the reply it received
    wiki_data,       \* what search_wikipedia returned
    answer,          \* what generate_answer returned
    ret              \* what full_pipeline returned

vars == <<pc, query, use_google, use_wiki, combined, calls, response, i, results,
          google_results, ddg_data, wiki_data, answer, ret>>

NoHttp == HttpFail(<<>>)
NoRet == [answer |-> JNull, evidence |-> <<>>]

\* The form as built: an empty question, both boxes ticked, nothing submitted.
Init ==
    /\ pc = "idle"
    /\ query = <<>>
    /\ use_google = TRUE
    /\ use_wiki = TRUE
    /\ combined = EmptyComposite(<<>>)
    /\ calls = <<>>
    /\ response = NoReply
    /\ i = 1
    /\ results = <<>>
    /\ google_results = <<>>
    /\ ddg_data = NoHttp
    /\ wiki_data = JNull
    /\ answer = Ok(JNull)
    /\ ret = NoRet

\* submit_btn.click: full_pipeline starts and combine_results builds the empty
\* composite.
Submit ==
    /\ pc \in {"idle", "done"}
    /\ \E q \in Queries, g \in BOOLEAN, w \in BOOLEAN :
        /\ query' = q
        /\ use_google' = g
        /\ use_wiki' = w
        /\ combined' = EmptyComposite(q)
    /\ pc' = "web"
    /\ calls' = <<>>
    /\ response' = NoReply
    /\ i' = 1
    /\ results' = <<>>
    /\ google_results' = <<>>
    /\ ddg_data' = NoHttp
    /\ wiki_data' = JNull
    /\ answer' = Ok(JNull)
    /\ ret' = NoRet

\* if use_google: is false.
SkipWeb ==
    /\ pc = "web"
    /\ ~use_google
    /\ pc' = "wiki"
    /\ UNCHANGED <<query, use_google, use_wiki, combined, calls, response, i, results,
                   google_results, ddg_data, wiki_data, answer, ret>>

\* search_google up to the loop: the request, then the block-phrase test.  A
\* failed request and a blocked page return [] at once.
GoogleFetch ==
    /\ pc = "web"
    /\ use_google
    /\ calls' = Append(calls, "google")
    /\ \E reply \in GoogleReplies :
        /\ response' = reply
        /\ pc' = IF ~reply.ok \/ Blocked(reply) THEN "google_ret" ELSE "scrape"
    /\ i' = 1
    /\ results' = <<>>
    /\ google_results' = <<>>
    /\ UNCHANGED <<query, use_google, use_wiki, combined, ddg_data, wiki_data, answer, ret>>

\* One candidate block of the loop.
ScrapeStep ==
    /\ pc = "scrape"
    /\ i <= Len(response.blocks)
    /\ results' = ScrapeBlock(results, response.blocks[i])
    /\ i' = i + 1
    /\ UNCHANGED <<pc, query, use_google, use_wiki, combined, calls, response,
                   google_results, ddg_data, wiki_data, answer, ret>>

\* return results, after the last block.
ScrapeReturn ==
    /\ pc = "scrape"
    /\ i > Len(response.blocks)
    /\ google_results' = results
    /\ pc' = "google_ret"
    /\ UNCHANGED <<query, use_google, use_wiki, combined, calls, response, i, results,
                   ddg_data, wiki_data, answer, ret>>

\* if not google_results: search_duckduckgo is called and its list stored.
Fallback ==
    /\ pc = "google_ret"
    /\ UseFallback(google_results)
    /\ calls' = Append(calls, "duckduckgo")
    /\ \E reply \in DdgReplies :
        /\ ddg_data' = reply
        /\ combined' = StoreFallback(combined, search_duckduckgo(reply))
    /\ pc' = "wiki"
    /\ response' = NoReply
    /\ i' = 1
    /\ results' = <<>>
    /\ UNCHANGED <<query, use_google, use_wiki, google_results, wiki_data, answer, ret>>

\* else: the primary results are stored.
KeepGoogle ==
    /\ pc = "google_ret"
    /\ ~UseFallback(google_results)
    /\ combined' = StoreGoogle(combined, google_results)
    /\ pc' = "wiki"
    /\ response' = NoReply
    /\ i' = 1
    /\ results' = <<>>
    /\ UNCHANGED <<query, use_google, use_wiki, calls, google_results, ddg_data,
                   wiki_data, answer, ret>>

\* if use_wiki: is false; combine_results returns.
SkipWiki ==
    /\ pc = "wiki"
    /\ ~use_wiki
    /\ pc' = "synth"
    /\ UNCHANGED <<query, use_google, use_wiki, combined, calls, response, i, results,
                   google_results, ddg_data, wiki_data, answer, ret>>

\* Faulty variant: a failed request is tried again.
Wikipedia_retry ==
    /\ pc = "wiki"
    /\ use_wiki
    /\ calls' = Append(calls, "wikipedia")
    /\ \E reply \in WikiReplies :
        /\ wiki_data' = search_wikipedia(reply)
        /\ combined' = StoreWikipedia(combined, search_wikipedia(reply))
        /\ pc' = IF reply.ok THEN "synth" ELSE "wiki"
    /\ UNCHANGED <<query, use_google, use_wiki, response, i, results, google_results,
                   ddg_data, answer, ret>>

\* search_wikipedia, the storing of its result, and the return of
\* combine_results (from the try or from the except).
Wikipedia ==
    /\ pc = "wiki"
    /\ use_wiki
    /\ calls' = Append(calls, "wikipedia")
    /\ \E reply \in WikiReplies :
        /\ wiki_data' = search_wikipedia(reply)
        /\ combined' = StoreWikipedia(combined, search_wikipedia(reply))
    /\ pc' = "synth"
    /\ UNCHANGED <<query, use_google, use_wiki, response, i, results, google_results,
                   ddg_data, answer, ret>>

\* generate_answer without evidence: the fixed message.
AnswerNoResults ==
    /\ pc = "synth"
    /\ ~CallsModel(combined)
    /\ answer' = generate_answer(combined, NoHttp)
    /\ pc' = "dump"
    /\ UNCHANGED <<query, use_google, use_wiki, combined, calls, response, i, results,
                   google_results, ddg_data, wiki_data, ret>>

\* generate_answer with evidence: one ollama.chat.
AnswerFromModel ==
    /\ pc = "synth"
    /\ CallsModel(combined)
    /\ calls' = Append(calls, "ollama")
    /\ \E reply \in LlmReplies : answer' = generate_answer(combined, reply)
    /\ pc' = "dump"
    /\ UNCHANGED <<query, use_google, use_wiki, combined, response, i, results,
                   google_results, ddg_data, wiki_data, ret>>

\* return answer, json.dumps(results, indent=2), or the except branch.
Return ==
    /\ pc = "dump"
    /\ ret' = full_pipeline(combined, answer)
    /\ pc' = "done"
    /\ UNCHANGED <<query, use_google, use_wiki, combined, calls, response, i, results,
                   google_results, ddg_data, wiki_data, answer>>

Next ==
    \/ Submit
    \/ SkipWeb
    \/ GoogleFetch
    \/ ScrapeStep
    \/ ScrapeReturn
    \/ Fallback
    \/ KeepGoogle
    \/ SkipWiki
    \/ Wikipedia
    \/ AnswerNoResults
    \/ AnswerFromModel
    \/ Return

Spec == Init /\ [][Next]_vars

\* generate_answer on its own: any composite, also ones combine_results never
\* builds, is handed to it.
SynthComposites ==
    {[query |-> q, sources |-> [google |-> g, wikipedia |-> w, fallback |-> f]] :
        q \in Queries,
        g \in {<<>>, ScrapeBlock(<<>>, BOk1)},
        w \in {EmptyDict, WikiEntry(WikiNoSuggestion).value, WikiEntry(WikiFull).value},
        f \in {<<>>, search_duckduckgo(HttpJson(DdgBlank))}}

InitSynth ==
    /\ pc = "synth"
    /\ combined \in SynthComposites
    /\ query = combined.query
    /\ use_google \in BOOLEAN
    /\ use_wiki \in BOOLEAN
    /\ calls = <<>>
    /\ response = NoReply
    /\ i = 1
    /\ results = <<>>
    /\ google_results = <<>>
    /\ ddg_data = NoHttp
    /\ wiki_data = JNull
    /\ answer = Ok(JNull)
    /\ ret = NoRet

SpecSynth == InitSynth /\ [][Next]_vars

-----------------------------------------------------------------------------
(* Properties *)

\* How often an external service was called for this request.
Count(name) == Cardinality({n \in 1..Len(calls) : calls[n] = name})

Returned == pc \in {"synth", "dump", "done"}

\* A JSON text: value := string | number | null | [ value,* ] | { string : value,* }.
\* Each parser gives the position after what it read, 0 when it cannot.
RECURSIVE ParseValue(_, _)
RECURSIVE ParseElements(_, _)
RECURSIVE ParseMembers(_, _)

ParseValue(toks, n) ==
    IF n = 0 \/ n > Len(toks) THEN 0
    ELSE CASE toks[n].k \in {"string", "number", "null"} -> n + 1
           [] toks[n].k = "[" ->
                IF n < Len(toks) /\ toks[n + 1].k = "]" THEN n + 2
                ELSE ParseElements(toks, n + 1)
           [] toks[n].k = "{" ->
                IF n < Len(toks) /\ toks[n + 1].k = "}" THEN n + 2
                ELSE ParseMembers(toks, n + 1)
           [] OTHER -> 0

ParseElements(toks, n) ==
    LET m == ParseValue(toks, n)
    IN  IF m = 0 \/ m > Len(toks) THEN 0
        ELSE IF toks[m].k = "," THEN ParseElements(toks, m + 1)
        ELSE IF toks[m].k = "]" THEN m + 1
        ELSE 0

ParseMembers(toks, n) ==
    IF n + 1 > Len(toks) \/ toks[n].k # "string" \/ toks[n + 1].k # ":" THEN 0
    ELSE LET m == ParseValue(toks, n + 2)
         IN  IF m = 0 \/ m > Len(toks) THEN 0
             ELSE IF toks[m].k = "," THEN ParseMembers(toks, m + 1)
             ELSE IF toks[m].k = "}" THEN m + 1
             ELSE 0

IsValidJson(toks) == ParseValue(toks, 1) = Len(toks) + 1

C2_FallbackExactlyWhenPrimaryEmpty ==
    IF pc \in {"wiki", "synth", "dump", "done"} /\ use_google /\ google_results = <<>>
    THEN /\ Count("duckduckgo") = 1
         /\ combined.sources.fallback = search_duckduckgo(ddg_data)
         /\ combined.sources.google = <<>>
    ELSE Count("duckduckgo") = 0

C2_Witness ==
    /\ pc = "wiki"
    /\ use_google
    /\ google_results = <<>>
    /\ Count("duckduckgo") = 1
    /\ Len(combined.sources.fallback) = 1

\* C3: sources.google and sources.fallback are never both non-empty.
C3_AtMostOneWebSource ==
    ~(combined.sources.google # <<>> /\ combined.sources.fallback # <<>>)

C3_Witness ==
    /\ pc = "synth"
    /\ combined.sources.google = <<>>
    /\ combined.sources.fallback # <<>>

\* The secondary API yields nothing: the reply decodes to a dict that has none
\* of Heading, AbstractURL and AbstractText.
DdgYieldsNothing(reply) ==
    /\ reply.ok /\ reply.decodes /\ reply.json.t = "dict"
    /\ \A k \in {"Heading", "AbstractURL", "AbstractText"} : ~HasKey(reply.json, k)

DdgErrors(reply) == ~(reply.ok /\ reply.decodes) \/ reply.json.t # "dict"

\* C4: search_duckduckgo returns the empty list whenever the secondary API yields
\* nothing or the call errors, and a one-element list only when the API yields
\* an answer.
C4_FallbackEmptyWhenNothing ==
    Count("duckduckgo") = 1 =>
        /\ (DdgYieldsNothing(ddg_data) \/ DdgErrors(ddg_data))
              => combined.sources.fallback = <<>>
        /\ Len(combined.sources.fallback) = 1
              => ~(DdgYieldsNothing(ddg_data) \/ DdgErrors(ddg_data))

\* C5: generate_answer calls the model exactly once when one of sources.google,
\* sources.wikipedia, sources.fallback is non-empty, and when all three are empty
\* it makes no call and returns the fixed message.
C5_ModelCalledIffEvidence ==
    pc \in {"dump", "done"} =>
        IF \/ Len(combined.sources.google) > 0
           \/ Len(combined.sources.wikipedia.keys) > 0
           \/ Len(combined.sources.fallback) > 0
        THEN Count("ollama") = 1
        ELSE Count("ollama") = 0 /\ answer = Ok(JStr(NoResultsMsg))

\* Only the encyclopedia entry is non-empty, and it holds no result.
C5_Witness ==
    /\ pc = "dump"
    /\ combined.sources.google = <<>>
    /\ combined.sources.fallback = <<>>
    /\ combined.sources.wikipedia = JDict(<<"results", "suggestion">>, <<JList(<<>>), JNull>>)
    /\ Count("ollama") = 1

\* C6: with both toggles off no search client and no model is called, the three
\* sources of the evidence are empty and the answer is the fixed message.
C6_BothTogglesOff ==
    (~use_google /\ ~use_wiki) =>
        /\ calls = <<>>
        /\ combined.sources = [google |-> <<>>, wikipedia |-> EmptyDict, fallback |-> <<>>]
        /\ pc = "done" =>
            /\ ret.answer = JStr(NoResultsMsg)
            /\ ret.evidence = Dumps(CompositeJson(EmptyComposite(query)))

C6_Witness ==
    /\ pc = "done"
    /\ ~use_google
    /\ ~use_wiki
    /\ query # <<>>
    /\ ret.answer = JStr(NoResultsMsg)

\* Whether the value x occurs in the JSON value v.
RECURSIVE Occurs(_, _)
Occurs(x, v) == v = x \/ \E n \in 1..Len(v.items) : Occurs(x, v.items[n])

\* The web-search part of the composite as the web stage left it.
WebPartKept ==
    /\ combined.sources.google = (IF use_google THEN google_results ELSE <<>>)
    /\ combined.sources.fallback =
          (IF use_google /\ google_results = <<>> THEN search_duckduckgo(ddg_data) ELSE <<>>)

ErrorOnly(w) == w.t = "dict" /\ HasKey(w, "error") /\ ~HasKey(w, "query")

\* C7: when the Wikipedia client returns a response with an error field and no
\* query field, sources.wikipedia is the empty mapping, the error value is
\* nowhere in the composite and the web-search part is unaffected.
C7_WikipediaErrorNotSurfaced ==
    (Returned /\ use_wiki /\ ErrorOnly(wiki_data)) =>
        /\ combined.sources.wikipedia = EmptyDict
        /\ ~Occurs(Get(wiki_data, "error"), CompositeJson(combined))
        /\ WebPartKept

C7_Witness ==
    /\ pc = "synth"
    /\ use_wiki
    /\ ErrorOnly(wiki_data)
    /\ combined.sources.google # <<>>

\* The blocks of a page whose heading, anchor and href are there and whose href
\* does not begin with an internal path.
KeptBlock(b) ==
    /\ b.has_h3 /\ b.has_a /\ b.has_href
    /\ ~(b.href # <<>> /\ Head(b.href) \in {"/search?", "/url?"})

KeptBlocks(blocks) == SelectSeq(blocks, KeptBlock)

\* C8: search_google returns [] for a blocked page (no block is processed) and
\* for a failed request; otherwise, in page order, exactly the blocks whose
\* extraction succeeds and whose URL is not internal, every block having been
\* processed.
C8_GoogleResults ==
    pc = "google_ret" =>
        IF ~response.ok \/ response.text \cap BlockPhrases # {}
        THEN google_results = <<>> /\ i = 1
        ELSE /\ i = Len(response.blocks) + 1
             /\ Len(google_results) = Len(KeptBlocks(response.blocks))
             /\ \A n \in 1..Len(google_results) :
                    /\ google_results[n].url = JStr(KeptBlocks(response.blocks)[n].href)
                    /\ google_results[n].title = JStr(strip(KeptBlocks(response.blocks)[n].h3))

\* A block without a title comes first and the block after it is returned.
C8_Witness ==
    /\ pc = "google_ret"
    /\ response.ok
    /\ response.blocks = <<BNoTitle, BOk1>>
    /\ Len(google_results) = 1
    /\ google_results[1].title = JStr(<<"Learn">>)

\* C9: combine_results returns the composite in all cases; when an exception is
\* raised mid-aggregation the query and the stored web-search result are kept
\* and sources.wikipedia stays the empty mapping.
C9_CompositeAlwaysReturned ==
    Returned =>
        /\ combined.query = query
        /\ WebPartKept
        /\ (use_wiki /\ CombinationFailed(wiki_data))
              => combined.sources.wikipedia = EmptyDict

\* A response with a query field and no search list, after a primary result.
C9_Witness ==
    /\ pc = "synth"
    /\ wiki_data = WikiNoSearch
    /\ Len(combined.sources.google) = 2
    /\ combined.sources.wikipedia = EmptyDict

Rank(name) ==
    CASE name = "google" -> 1
      [] name = "duckduckgo" -> 2
      [] name = "wikipedia" -> 3
      [] name = "ollama" -> 4

\* C10: each external service is called at most once per request, in the order
\* primary search, fallback search, Wikipedia, model; and Wikipedia is called
\* exactly once if and only if the encyclopedia toggle is on.
C10_CallOrder ==
    /\ \A a, b \in 1..Len(calls) : a < b => Rank(calls[a]) < Rank(calls[b])
    /\ Returned => Count("wikipedia") = (IF use_wiki THEN 1 ELSE 0)
    /\ ~Returned => Count("wikipedia") = 0

C10_Witness ==
    /\ pc = "done"
    /\ calls = <<"google", "duckduckgo", "wikipedia", "ollama">>

=============================================================================
